---- MODULE Spec2Model ----
(***************************************************************************)
(* Casspir: a minesweeper board (src/src/map/mod.rs), its coordinate       *)
(* helpers (src/src/point/mod.rs) and its solver (src/src/solver/mod.rs).  *)
(*                                                                         *)
(* Tiles are indexed 0..n-1 as in the Rust vector.  Every loop over a      *)
(* HashSet or HashMap is modelled as a choice over all iteration orders:   *)
(* the operators that contain such a loop return the SET of results the    *)
(* loop can produce.                                                       *)
(***************************************************************************)
EXTENDS Integers, Sequences, FiniteSets, TLC

\* Bounds of the model.
MaxTiles == 4
MaxMines == 2
MaxMoves == 14
\* The largest group the group pass is followed on in the runs on one-row
\* boards (its certain candidates are applied in every order).
MaxGroup == 4
\* The longest one-row board of the runs on boards of GROUP_SIZE_LIMIT or
\* more tiles.
LineTiles == 19
\* The most mines on a one-row board.
LineMines == 1
\* The length of the one-row boards on which every other tile is flipped,
\* and the most of those flipped tiles a board leaves out.
ChainTiles == 35
ChainGaps == 1
\* The length and the mines of the one-row boards whose tiles, all unflipped,
\* form one group with more than 255 valid permutations.
WideTiles == 9
WideMines == 4

\* solver/mod.rs:13
GROUP_SIZE_LIMIT == 18

VARIABLES map, last, pc, staging, moves, phase, truncated

vars == <<map, last, pc, staging, moves, phase, truncated>>

----------------------------------------------------------------------------
\* point/mod.rs

Points(width, height) ==
    {[x |-> a, y |-> b] : a \in 0..(width - 1), b \in 0..(height - 1)}

to_index(p, width) == (p.y * width) + p.x

\* Callers guard width = 0 (division by zero aborts).  The check of
\* point/mod.rs:37-39 (index / width beyond 65535) is out of reach of the
\* indices of the boards modelled here (25 tiles at most).
from_index(index, width) == [x |-> index % width, y |-> index \div width]

get_neighbours(position, width, height) ==
    LET u == position.y > 0
        d == position.y < (height - 1)
        l == position.x > 0
        r == position.x < (width - 1)
    IN    (IF u THEN {[x |-> position.x, y |-> position.y - 1]} ELSE {})
     \cup (IF d THEN {[x |-> position.x, y |-> position.y + 1]} ELSE {})
     \cup (IF l THEN {[x |-> position.x - 1, y |-> position.y]} ELSE {})
     \cup (IF r THEN {[x |-> position.x + 1, y |-> position.y]} ELSE {})
     \cup (IF u /\ l THEN {[x |-> position.x - 1, y |-> position.y - 1]} ELSE {})
     \cup (IF u /\ r THEN {[x |-> position.x + 1, y |-> position.y - 1]} ELSE {})
     \cup (IF d /\ l THEN {[x |-> position.x - 1, y |-> position.y + 1]} ELSE {})
     \cup (IF d /\ r THEN {[x |-> position.x + 1, y |-> position.y + 1]} ELSE {})

----------------------------------------------------------------------------
\* map/mod.rs: the board

Status == {"InProgress", "Failed", "Complete"}

get_size(m) == m.width * m.height

NumTiles(m) == Cardinality(DOMAIN m.tiles)

\* Indices of the neighbours of tile i.
NeighbourIdx(m, i) ==
    {to_index(q, m.width) : q \in get_neighbours(from_index(i, m.width), m.width, m.height)}

flag_without_budget(m, position) ==
    IF m.status # "InProgress" THEN m
    ELSE LET index == to_index(position, m.width) IN
         IF m.tiles[index].flipped THEN m
         ELSE IF m.tiles[index].flagged
              THEN [m EXCEPT !.tiles[index].flagged = FALSE,
                             !.mines_remaining = @ + 1]
              ELSE [m EXCEPT !.tiles[index].flagged = TRUE,
                             !.mines_remaining = @ - 1]

flag_on_finished(m, position) ==
    LET index == to_index(position, m.width) IN
    IF m.tiles[index].flipped THEN m
    ELSE IF m.tiles[index].flagged
         THEN [m EXCEPT !.tiles[index].flagged = FALSE,
                        !.mines_remaining = @ + 1]
         ELSE IF m.mines_remaining > 0
              THEN [m EXCEPT !.tiles[index].flagged = TRUE,
                             !.mines_remaining = @ - 1]
              ELSE m

flag_flipped_tiles(m, position) ==
    IF m.status # "InProgress" THEN m
    ELSE LET index == to_index(position, m.width) IN
         IF m.tiles[index].flagged
         THEN [m EXCEPT !.tiles[index].flagged = FALSE,
                        !.mines_remaining = @ + 1]
         ELSE IF m.mines_remaining > 0
              THEN [m EXCEPT !.tiles[index].flagged = TRUE,
                             !.mines_remaining = @ - 1]
              ELSE m

flag_never_clears(m, position) ==
    IF m.status # "InProgress" THEN m
    ELSE LET index == to_index(position, m.width) IN
         IF m.tiles[index].flipped \/ m.tiles[index].flagged THEN m
         ELSE IF m.mines_remaining > 0
              THEN [m EXCEPT !.tiles[index].flagged = TRUE,
                             !.mines_remaining = @ - 1]
              ELSE m

flag(m, position) ==
    IF m.status # "InProgress" THEN m
    ELSE LET index == to_index(position, m.width) IN
         IF m.tiles[index].flipped THEN m
         ELSE IF m.tiles[index].flagged
              THEN [m EXCEPT !.tiles[index].flagged = FALSE,
                             !.mines_remaining = @ + 1]
              ELSE IF m.mines_remaining > 0
                   THEN [m EXCEPT !.tiles[index].flagged = TRUE,
                                  !.mines_remaining = @ - 1]
                   ELSE m

is_tile_satisfied(m, position) ==
    LET tile == m.tiles[to_index(position, m.width)]
        neighbours == get_neighbours(position, m.width, m.height)
        flags == Cardinality({q \in neighbours : m.tiles[to_index(q, m.width)].flagged})
    IN flags = tile.value

check_completed_unguarded(m) ==
    IF m.tiles_flipped + m.total_mines = NumTiles(m)
    THEN [m EXCEPT !.status = "Complete"]
    ELSE m

check_completed_all_flipped(m) ==
    IF m.status # "InProgress" THEN m
    ELSE IF m.tiles_flipped = NumTiles(m)
         THEN [m EXCEPT !.status = "Complete"]
         ELSE m

check_completed(m) ==
    IF m.status # "InProgress" THEN m
    ELSE IF m.tiles_flipped + m.total_mines = NumTiles(m)
         THEN [m EXCEPT !.status = "Complete"]
         ELSE m

RECURSIVE flip_recurse(_, _), flip_each(_, _)
RECURSIVE flip_recurse_on_complete(_, _), flip_recurse_mine_unnoticed(_, _)
RECURSIVE flip_recurse_past_numbers(_, _)
RECURSIVE flip_recurse_mine_uncounted(_, _)

\* The loop `for neighbour in &neighbours { flipped += self.flip_recurse(neighbour); }`
\* of flip and flip_recurse, in every iteration order of the HashSet.  A call
\* of flip_recurse on a tile that is flipped or flagged, or on a board that is
\* not InProgress, returns 0 and changes nothing, now and later in the loop,
\* so only the other neighbours are ordered.
flip_each(m, neighbours) ==
    LET live == IF m.status # "InProgress" THEN {}
                ELSE {q \in neighbours :
                        /\ ~m.tiles[to_index(q, m.width)].flipped
                        /\ ~m.tiles[to_index(q, m.width)].flagged}
    IN IF live = {} THEN {[map |-> m, n |-> 0]}
       ELSE UNION { UNION { {[map |-> r2.map, n |-> r1.n + r2.n] :
                                r2 \in flip_each(r1.map, live \ {q})} :
                            r1 \in flip_recurse(m, q)} :
                    q \in live }

flip_recurse_on_complete(m, position) ==
    IF m.status = "Failed" THEN {[map |-> m, n |-> 0]}
    ELSE LET index == to_index(position, m.width) IN
         IF m.tiles[index].flipped \/ m.tiles[index].flagged
         THEN {[map |-> m, n |-> 0]}
         ELSE LET m1 == [m EXCEPT !.tiles[index].flipped = TRUE,
                                  !.tiles_flipped = @ + 1]
              IN IF m1.tiles[index].mine
                 THEN {[map |-> [m1 EXCEPT !.status = "Failed"], n |-> 1]}
                 ELSE IF m1.tiles[index].value # 0
                      THEN {[map |-> m1, n |-> 1]}
                      ELSE flip_each(m1, get_neighbours(position, m.width, m.height))

flip_recurse_mine_unnoticed(m, position) ==
    IF m.status # "InProgress" THEN {[map |-> m, n |-> 0]}
    ELSE LET index == to_index(position, m.width) IN
         IF m.tiles[index].flipped \/ m.tiles[index].flagged
         THEN {[map |-> m, n |-> 0]}
         ELSE LET m1 == [m EXCEPT !.tiles[index].flipped = TRUE,
                                  !.tiles_flipped = @ + 1]
              IN IF m1.tiles[index].value # 0 \/ m1.tiles[index].mine
                 THEN {[map |-> m1, n |-> 1]}
                 ELSE flip_each(m1, get_neighbours(position, m.width, m.height))

flip_recurse_past_numbers(m, position) ==
    IF m.status # "InProgress" THEN {[map |-> m, n |-> 0]}
    ELSE LET index == to_index(position, m.width) IN
         IF m.tiles[index].flipped \/ m.tiles[index].flagged
         THEN {[map |-> m, n |-> 0]}
         ELSE LET m1 == [m EXCEPT !.tiles[index].flipped = TRUE,
                                  !.tiles_flipped = @ + 1]
              IN IF m1.tiles[index].mine
                 THEN {[map |-> [m1 EXCEPT !.status = "Failed"], n |-> 1]}
                 ELSE flip_each(m1, get_neighbours(position, m.width, m.height))

flip_recurse_mine_uncounted(m, position) ==
    IF m.status # "InProgress" THEN {[map |-> m, n |-> 0]}
    ELSE LET index == to_index(position, m.width) IN
         IF m.tiles[index].flipped \/ m.tiles[index].flagged
         THEN {[map |-> m, n |-> 0]}
         ELSE LET m1 == [m EXCEPT !.tiles[index].flipped = TRUE]
                  m2 == [m1 EXCEPT !.tiles_flipped = @ + 1]
              IN IF m1.tiles[index].mine
                 THEN {[map |-> [m1 EXCEPT !.status = "Failed"], n |-> 1]}
                 ELSE IF m2.tiles[index].value # 0
                      THEN {[map |-> m2, n |-> 1]}
                      ELSE flip_each(m2, get_neighbours(position, m.width, m.height))

\* Returns the set of possible [map, n]: the board after the call and the
\* returned count.  A zero-value tile returns the sum of its neighbours'
\* counts only (`flipped` starts at 0 on map/mod.rs:183).
flip_recurse(m, position) ==
    IF m.status # "InProgress" THEN {[map |-> m, n |-> 0]}
    ELSE LET index == to_index(position, m.width) IN
         IF m.tiles[index].flipped \/ m.tiles[index].flagged
         THEN {[map |-> m, n |-> 0]}
         ELSE LET m1 == [m EXCEPT !.tiles[index].flipped = TRUE,
                                  !.tiles_flipped = @ + 1]
              IN IF m1.tiles[index].mine
                 THEN {[map |-> [m1 EXCEPT !.status = "Failed"], n |-> 1]}
                 ELSE IF m1.tiles[index].value # 0
                      THEN {[map |-> m1, n |-> 1]}
                      ELSE flip_each(m1, get_neighbours(position, m.width, m.height))

flip_without_completion_check(m, position) ==
    LET index == to_index(position, m.width)
    IN IF m.tiles[index].flipped
       THEN IF is_tile_satisfied(m, position)
            THEN flip_each(m, get_neighbours(position, m.width, m.height))
            ELSE {[map |-> m, n |-> 0]}
       ELSE IF ~m.tiles[index].flagged
            THEN flip_recurse(m, position)
            ELSE {[map |-> m, n |-> 0]}

flip_always_chords(m, position) ==
    LET index == to_index(position, m.width)
        R == IF m.tiles[index].flipped
             THEN flip_each(m, get_neighbours(position, m.width, m.height))
             ELSE IF ~m.tiles[index].flagged
                  THEN flip_recurse(m, position)
                  ELSE {[map |-> m, n |-> 0]}
    IN {[map |-> check_completed(r.map), n |-> r.n] : r \in R}

flip(m, position) ==
    LET index == to_index(position, m.width)
        R == IF m.tiles[index].flipped
             THEN IF is_tile_satisfied(m, position)
                  THEN flip_each(m, get_neighbours(position, m.width, m.height))
                  ELSE {[map |-> m, n |-> 0]}
             ELSE IF ~m.tiles[index].flagged
                  THEN flip_recurse(m, position)
                  ELSE {[map |-> m, n |-> 0]}
    IN {[map |-> check_completed(r.map), n |-> r.n] : r \in R}

----------------------------------------------------------------------------
\* map/mod.rs: the generators

EmptyTile == [value |-> 0, mine |-> FALSE, flagged |-> FALSE, flipped |-> FALSE]

\* Both generators build the tile vector in full before anything reads it:
\* `<< >> @@ f` is f, held as an explicit table of its values.

\* mines: a set of points.  Returns [panic, map]: construction aborts when a
\* mine's index is beyond the last tile (map/mod.rs:297) or when a tile index
\* is out of range of the vector; otherwise each mine marks tiles[index] and
\* adds one to the value of each of its neighbours.
generate_map_with_mines(width, height, mines) ==
    LET size == width * height
        hits == {h \in mines \X Points(width + 2, height + 2) :
                    h[2] \in get_neighbours(h[1], width, height)}
        panic == \/ \E mine \in mines : to_index(mine, width) > size - 1
                 \/ \E h \in hits : to_index(h[2], width) \notin 0..(size - 1)
    IN [panic |-> panic,
        map |-> [width |-> width, height |-> height,
                 total_mines |-> Cardinality(mines),
                 mines_remaining |-> Cardinality(mines),
                 tiles_flipped |-> 0,
                 status |-> "InProgress",
                 tiles |-> << >> @@ [i \in 0..(size - 1) |->
                     [EmptyTile EXCEPT
                        !.mine = (\E mine \in mines : to_index(mine, width) = i),
                        !.value = Cardinality({h \in hits :
                                        to_index(h[2], width) = i})]]]]

\* mineIdx: the tiles the random draw turned into mines (never the click,
\* map/mod.rs:239).  The first click is flood-filled with flip_recurse;
\* check_completed is not called.  Returns the set of possible boards.
generate_map_with_difficulty(width, height, mineIdx, click) ==
    LET m0 == [width |-> width, height |-> height,
               total_mines |-> Cardinality(mineIdx),
               mines_remaining |-> Cardinality(mineIdx),
               tiles_flipped |-> 0,
               status |-> "InProgress",
               tiles |-> << >> @@ [i \in 0..(width * height - 1) |->
                   [EmptyTile EXCEPT
                      !.mine = (i \in mineIdx),
                      !.value = Cardinality({k \in mineIdx :
                          from_index(i, width) \in
                            get_neighbours(from_index(k, width), width, height)})]]]
    IN {r.map : r \in flip_recurse(m0, click)}

----------------------------------------------------------------------------
\* solver/mod.rs
\* The passes return the set of possible [map, moves, panic]: the board after
\* the pass, the moves it recorded, and whether it aborted.

Min(a, b) == IF a < b THEN a ELSE b

Move(position, move_type) == [position |-> position, move_type |-> move_type]

RECURSIVE SortedSeq(_)
\* The elements of a set of numbers in increasing order.
SortedSeq(S) ==
    IF S = {} THEN << >>
    ELSE LET least == CHOOSE a \in S : \A b \in S : a <= b
         IN <<least>> \o SortedSeq(S \ {least})

RECURSIVE count_ones(_)
count_ones(i) == IF i = 0 THEN 0 ELSE (i % 2) + count_ones(i \div 2)

RECURSIVE Pow2(_)
Pow2(j) == IF j = 0 THEN 1 ELSE 2 * Pow2(j - 1)

RECURSIVE flag_each(_, _), flag_each_unrecorded(_, _)

flag_each_unrecorded(m, indices) ==
    IF indices = {} THEN {[map |-> m, moves |-> << >>, panic |-> FALSE]}
    ELSE UNION { flag_each_unrecorded(flag(m, from_index(i, m.width)), indices \ {i})
                 : i \in indices }

\* A loop that flags the tiles of `indices` one by one and records a Flag
\* move for each (solver/mod.rs:90-100), in every iteration order.
flag_each(m, indices) ==
    IF indices = {} THEN {[map |-> m, moves |-> << >>, panic |-> FALSE]}
    ELSE UNION { LET position == from_index(i, m.width)
                 IN {[map |-> r.map,
                      moves |-> <<Move(position, "Flag")>> \o r.moves,
                      panic |-> FALSE] :
                        r \in flag_each(flag(m, position), indices \ {i})}
                 : i \in indices }

evaluate_neighbours(m, index) ==
    LET position == from_index(index, m.width)
        neighbours == get_neighbours(position, m.width, m.height)
        flagged == Cardinality({q \in neighbours : m.tiles[to_index(q, m.width)].flagged})
        unflipped == Cardinality({q \in neighbours : ~m.tiles[to_index(q, m.width)].flipped})
        \* u8 subtraction: aborts in a checked build, wraps otherwise
        underflow == unflipped < flagged
        difference == (unflipped - flagged) % 256
    IN IF flagged = m.tiles[index].value /\ underflow
       THEN {[map |-> m, moves |-> << >>, panic |-> TRUE]}
            \cup {[map |-> r.map, moves |-> <<Move(position, "Flip")>>, panic |-> FALSE] :
                    r \in flip(m, position)}
       ELSE IF flagged = m.tiles[index].value /\ difference > 0
       THEN {[map |-> r.map, moves |-> <<Move(position, "Flip")>>, panic |-> FALSE] :
                r \in flip(m, position)}
       ELSE IF unflipped = m.tiles[index].value
       THEN flag_each(m, {to_index(q, m.width) : q \in
                            {n \in neighbours :
                                /\ ~m.tiles[to_index(n, m.width)].flagged
                                /\ ~m.tiles[to_index(n, m.width)].flipped}})
       ELSE {[map |-> m, moves |-> << >>, panic |-> FALSE]}

RECURSIVE basic_pass_from(_, _)
\* The loop of basic_pass from tile i on.
basic_pass_from(m, i) ==
    IF i >= NumTiles(m) THEN {[map |-> m, moves |-> << >>, panic |-> FALSE]}
    ELSE IF m.tiles[i].flipped /\ m.tiles[i].value > 0
         THEN UNION { IF r1.panic THEN {r1}
                      ELSE {[map |-> r2.map,
                             moves |-> r1.moves \o r2.moves,
                             panic |-> r2.panic] :
                                r2 \in basic_pass_from(r1.map, i + 1)}
                      : r1 \in evaluate_neighbours(m, i) }
         ELSE basic_pass_from(m, i + 1)

basic_pass(m) == basic_pass_from(m, 0)

RECURSIVE apply_permutation(_, _, _, _), apply_permutation_set_only(_, _, _, _)
apply_permutation_set_only(staging_map, i, sorted, j) ==
    IF j >= Len(sorted) THEN staging_map
    ELSE LET index == sorted[j + 1]
             position == from_index(index, staging_map.width)
             bit == (i \div Pow2(j)) % 2
             next == IF bit > 0 /\ ~staging_map.tiles[index].flagged
                     THEN flag(staging_map, position) ELSE staging_map
         IN apply_permutation(next, i, sorted, j + 1)

\* The inner loop of evaluate_group (solver/mod.rs:363-377): set or clear the
\* flag of each tile of the sorted group as bit j of the mask i says.
apply_permutation(staging_map, i, sorted, j) ==
    IF j >= Len(sorted) THEN staging_map
    ELSE LET index == sorted[j + 1]
             position == from_index(index, staging_map.width)
             bit == (i \div Pow2(j)) % 2
             next == IF bit > 0
                     THEN IF ~staging_map.tiles[index].flagged
                          THEN flag(staging_map, position) ELSE staging_map
                     ELSE IF staging_map.tiles[index].flagged
                          THEN flag(staging_map, position) ELSE staging_map
         IN apply_permutation(next, i, sorted, j + 1)

RECURSIVE tally_flags(_, _, _, _)
\* solver/mod.rs:388-393: one more for each tile of the group that is flagged.
tally_flags(tallies, staging_map, sorted, j) ==
    IF j > Len(sorted) THEN tallies
    ELSE tally_flags(IF staging_map.tiles[sorted[j]].flagged
                     THEN [tallies EXCEPT ![sorted[j]] = @ + 1]
                     ELSE tallies,
                     staging_map, sorted, j + 1)

permutation_unchecked(i, acc, g) ==
    IF count_ones(i) > g.max_mines THEN acc
    ELSE LET sm == apply_permutation(acc.staging_map, i, g.sorted, 0)
         IN [staging_map |-> sm,
             valid_permutations |-> acc.valid_permutations + 1,
             tallies |-> tally_flags(acc.tallies, sm, g.sorted, 1)]

\* The body of the loop 'outer of evaluate_group for the mask i; acc holds
\* staging_map, valid_permutations and tallies, g the values the loop does
\* not change.
permutation(i, acc, g) ==
    IF count_ones(i) > g.max_mines THEN acc
    ELSE LET sm == apply_permutation(acc.staging_map, i, g.sorted, 0)
         IN IF \E k \in g.tiles_flipped :
                   ~is_tile_satisfied(sm, from_index(k, sm.width))
            THEN [acc EXCEPT !.staging_map = sm]
            ELSE [staging_map |-> sm,
                  valid_permutations |-> acc.valid_permutations + 1,
                  tallies |-> tally_flags(acc.tallies, sm, g.sorted, 1)]

RECURSIVE permutations(_, _, _, _)
\* The loop 'outer for the masks lo..hi in increasing order (folded by halves).
permutations(lo, hi, acc, g) ==
    IF lo > hi THEN acc
    ELSE IF lo = hi THEN permutation(lo, acc, g)
    ELSE LET mid == (lo + hi) \div 2
             left == permutations(lo, mid, acc, g)
         IN IF left.valid_permutations >= 0   \* the first half is run first
            THEN permutations(mid + 1, hi, left, g)
            ELSE left

\* The values evaluate_group works with on group tiles_unflipped of board m
\* (solver/mod.rs:321-350).
group_of(m, tiles_unflipped) ==
    LET unflipped_count == Min(GROUP_SIZE_LIMIT, Cardinality(tiles_unflipped))
    IN [unflipped_count |-> unflipped_count,
        max_mines |-> Min(m.mines_remaining, unflipped_count),
        sorted |-> SortedSeq(tiles_unflipped),
        tiles_flipped |-> {k \in UNION {NeighbourIdx(m, t) : t \in tiles_unflipped} :
                              m.tiles[k].flipped}]

\* What the loop over the masks leaves (solver/mod.rs:357-394):
\* staging_map, valid_permutations and tallies.
count_permutations(m, tiles_unflipped) ==
    LET g == group_of(m, tiles_unflipped)
    IN permutations(0, Pow2(g.unflipped_count) - 1,
                    [staging_map |-> m,
                     valid_permutations |-> 0,
                     tallies |-> [t \in tiles_unflipped |-> 0]], g)

evaluate_group_flips_only(m, tiles_unflipped) ==
    LET counted == count_permutations(m, tiles_unflipped)
        valid_permutations == counted.valid_permutations
        tallies == counted.tallies
        certain == {<<t, 0>> : t \in {u \in tiles_unflipped : tallies[u] = 0}}
        uncertain == {t \in tiles_unflipped : tallies[t] # 0}
        least == {t \in uncertain : \A u \in uncertain : tallies[t] <= tallies[u]}
    IN IF certain # {} THEN {certain}
       ELSE IF valid_permutations > 0
            THEN IF uncertain = {}
                 THEN {{<<0, (valid_permutations + 1) * (255 \div valid_permutations)>>}}
                 ELSE {{<<t, tallies[t] * (255 \div valid_permutations)>>} : t \in least}
            ELSE {{}}

\* Returns the set of possible nomination sets; a nomination is <<index, risk>>.
\* The least risky tile is the first of least tally in the iteration order of
\* the HashMap `tallies`: any tile of least tally.
evaluate_group(m, tiles_unflipped) ==
    LET counted == count_permutations(m, tiles_unflipped)
        valid_permutations == counted.valid_permutations
        tallies == counted.tallies
        certain ==    {<<t, 0>> : t \in {u \in tiles_unflipped : tallies[u] = 0}}
                 \cup {<<t, 256>> : t \in {u \in tiles_unflipped :
                            tallies[u] # 0 /\ tallies[u] = valid_permutations}}
        uncertain == {t \in tiles_unflipped :
                        tallies[t] # 0 /\ tallies[t] # valid_permutations}
        least == {t \in uncertain : \A u \in uncertain : tallies[t] <= tallies[u]}
    IN IF certain # {} THEN {certain}
       ELSE IF valid_permutations > 0
            THEN IF uncertain = {}
                 THEN {{<<0, (valid_permutations + 1) * (255 \div valid_permutations)>>}}
                 ELSE {{<<t, tallies[t] * (255 \div valid_permutations)>>} : t \in least}
            ELSE {{}}

\* The sequences that list the elements of the set S once each: the orders in
\* which a loop can meet the elements of a HashSet.
Orders(S) ==
    LET base == SortedSeq(S)
    IN {[k \in 1..Len(base) |-> p[base[k]]] : p \in Permutations(S)}

RECURSIVE flips_in_order(_, _, _)
\* The boards left by flipping the tiles order[k], order[k+1], ... in turn.
flips_in_order(m, order, k) ==
    IF k > Len(order) THEN {m}
    ELSE UNION {flips_in_order(r.map, order, k + 1) :
                    r \in flip(m, from_index(order[k], m.width))}

\* The zero-risk branch of the candidate loop (solver/mod.rs:159-164) over the
\* tiles of `indices`, in every order: one Flip move per tile.
flip_each_candidate(m, indices) ==
    LET orders == Orders(indices)
        runs == [o \in orders |-> flips_in_order(m, o, 1)]
        maps == UNION {runs[o] : o \in orders}
    IN {[map |-> y[2],
         moves |-> [k \in 1..Len(y[1]) |->
                       Move(from_index(y[1][k], m.width), "Flip")],
         panic |-> FALSE] :
            y \in {z \in orders \X maps : z[2] \in runs[z[1]]}}

\* solver/mod.rs:148-189: the candidates are sorted by risk (equal risks stay
\* in the iteration order of the HashSet, that is in any order), the zero-risk
\* ones are flipped, the 256 ones flagged, and the first other one is kept as
\* min_risk_tuple and flipped when no move was made.  Every zero-risk and
\* every 256 candidate records a move, so no move was made exactly when
\* there is neither.
select_moves_flips_only(m, candidates) ==
    LET zero == {c[1] : c \in {d \in candidates : d[2] = 0}}
        others == {c \in candidates : c[2] # 0 /\ c[2] # 256}
        min_risk_tuple_found == others # {}
        firsts == IF min_risk_tuple_found
                  THEN {c \in others : \A d \in others : c[2] <= d[2]}
                  ELSE {<<0, 0>>}
        aborted == [map |-> m, moves |-> << >>, panic |-> TRUE]
    IN IF m.width = 0
       THEN {aborted}
       ELSE IF zero = {} /\ min_risk_tuple_found
       THEN UNION { LET position == from_index(c[1], m.width)
                    IN IF to_index(position, m.width) \notin DOMAIN m.tiles
                       THEN {aborted}
                       ELSE {[map |-> r3.map,
                              moves |-> <<Move(position, "Flip")>>,
                              panic |-> FALSE] :
                                r3 \in flip(m, position)}
                    : c \in firsts }
       ELSE flip_each_candidate(m, zero)

select_moves(m, candidates) ==
    LET zero == {c[1] : c \in {d \in candidates : d[2] = 0}}
        mines == {c[1] : c \in {d \in candidates : d[2] = 256}}
        others == {c \in candidates : c[2] # 0 /\ c[2] # 256}
        min_risk_tuple_found == others # {}
        firsts == IF min_risk_tuple_found
                  THEN {c \in others : \A d \in others : c[2] <= d[2]}
                  ELSE {<<0, 0>>}
        aborted == [map |-> m, moves |-> << >>, panic |-> TRUE]
        flips == flip_each_candidate(m, zero)
        flipped == {r.map : r \in flips}
        flags == [b \in flipped |-> flag_each(b, mines)]
        flagged == UNION {flags[b] : b \in flipped}
    IN IF m.width = 0
       THEN {aborted}     \* from_index divides by the width
       ELSE IF zero = {} /\ mines = {} /\ min_risk_tuple_found
       THEN UNION { LET position == from_index(c[1], m.width)
                    IN IF to_index(position, m.width) \notin DOMAIN m.tiles
                       THEN {aborted}   \* index out of range
                       ELSE {[map |-> r3.map,
                              moves |-> <<Move(position, "Flip")>>,
                              panic |-> FALSE] :
                                r3 \in flip(m, position)}
                    : c \in firsts }
       ELSE {[map |-> y[2].map,
              moves |-> y[1].moves \o y[2].moves,
              panic |-> FALSE] :
                y \in {z \in flips \X flagged : z[2] \in flags[z[1].map]}}

RECURSIVE recursive_border_grok_flipped(_, _, _), grok_flipped_each(_, _, _)
RECURSIVE recursive_border_grok_unflipped(_, _, _), grok_unflipped_each(_, _, _)
RECURSIVE recursive_border_search(_, _, _), search_each(_, _, _)
RECURSIVE search_each_regrouping(_, _, _)

\* The two mutually recursive walks that collect a group (solver/mod.rs:
\* 254-316).  gs = [visited, members]; each returns the set of gs the loop
\* over the HashSet of neighbours can leave.  A neighbour the loop body skips
\* now is skipped in every later iteration too (visited only grows), so only
\* the other neighbours are ordered.
grok_flipped_each(m, gs, neighbours) ==
    LET live == {n \in neighbours : /\ n \notin gs.visited
                                    /\ ~m.tiles[n].flipped
                                    /\ ~m.tiles[n].flagged}
    IN IF live = {} THEN {gs}
       ELSE UNION { UNION { grok_flipped_each(m, g1, live \ {n}) :
                            g1 \in recursive_border_grok_unflipped(m,
                                      [visited |-> gs.visited \cup {n},
                                       members |-> gs.members \cup {n}], n) }
                    : n \in live }

recursive_border_grok_flipped(m, gs, flipped_index) ==
    grok_flipped_each(m, gs, NeighbourIdx(m, flipped_index))

grok_unflipped_each(m, gs, neighbours) ==
    LET live == {n \in neighbours : n \notin gs.visited /\ m.tiles[n].flipped}
    IN IF live = {} THEN {gs}
       ELSE UNION { UNION { grok_unflipped_each(m, g1, live \ {n}) :
                            g1 \in recursive_border_grok_flipped(m,
                                      [gs EXCEPT !.visited = @ \cup {n}], n) }
                    : n \in live }

recursive_border_grok_unflipped(m, gs, unflipped_index) ==
    grok_unflipped_each(m, gs, NeighbourIdx(m, unflipped_index))

search_each_regrouping(m, st, neighbours) ==
    LET live == {n \in neighbours :
                    /\ n \notin st.visited
                    /\ m.tiles[n].flipped \/ ~m.tiles[n].flagged}
    IN IF live = {} THEN {st}
       ELSE UNION { UNION { search_each(m, s1, live \ {n}) :
                            s1 \in IF m.tiles[n].flipped
                                   THEN {[st EXCEPT !.group_visited = g.visited,
                                                    !.groups = @ \cup {g.members}] :
                                            g \in recursive_border_grok_flipped(m,
                                                    [visited |-> st.group_visited,
                                                     members |-> {}], n)}
                                   ELSE recursive_border_search(m, n, st) }
                    : n \in live }

\* solver/mod.rs:194-251.  st = [visited, group_visited, groups]: the two
\* HashSets the caller owns and the groups found so far (found_borders of
\* the calls made so far; the order of that vector is of no effect).  The
\* loop over the neighbours is taken in every order of those it does not
\* skip for good: a neighbour that is visited, or flipped and in a group, or
\* unflipped and flagged, changes nothing now or later.
search_each(m, st, neighbours) ==
    LET live == {n \in neighbours :
                    /\ n \notin st.visited
                    /\ IF m.tiles[n].flipped THEN n \notin st.group_visited
                                             ELSE ~m.tiles[n].flagged}
    IN IF live = {} THEN {st}
       ELSE UNION { UNION { search_each(m, s1, live \ {n}) :
                            s1 \in IF m.tiles[n].flipped
                                   THEN {[st EXCEPT !.group_visited = g.visited,
                                                    !.groups = @ \cup {g.members}] :
                                            g \in recursive_border_grok_flipped(m,
                                                    [visited |-> st.group_visited,
                                                     members |-> {}], n)}
                                   ELSE recursive_border_search(m, n, st) }
                    : n \in live }

recursive_border_search(m, index, st) ==
    IF index \in st.visited \/ m.tiles[index].flipped \/ m.tiles[index].flagged
    THEN {st}
    ELSE search_each(m, [st EXCEPT !.visited = @ \cup {index}], NeighbourIdx(m, index))

RECURSIVE partition_from(_, _, _)
\* The loop of solver/mod.rs:130-145 from tile i on, without the evaluation
\* of the groups: the sets of groups the searches can find.
partition_from(m, i, st) ==
    IF i >= get_size(m) THEN {st.groups}
    ELSE IF i \in st.visited \/ m.tiles[i].flipped
         THEN partition_from(m, i + 1, st)
         ELSE UNION { partition_from(m, i + 1, s1) :
                        s1 \in recursive_border_search(m, i, st) }

evaluated_groups_unfiltered(m) ==
    LET map_size == get_size(m)
    IN IF map_size - m.tiles_flipped < GROUP_SIZE_LIMIT
       THEN {{{i \in 0..(map_size - 1) :
                    ~m.tiles[i].flipped /\ ~m.tiles[i].flagged}}}
       ELSE partition_from(m, 0,
                [visited |-> {}, group_visited |-> {}, groups |-> {}])

\* The groups one run of enumerate_groups hands to evaluate_group: with fewer
\* than GROUP_SIZE_LIMIT tiles left unflipped, all unflipped, unflagged tiles
\* as one group (solver/mod.rs:118-126); otherwise the groups of the
\* partition that have fewer than GROUP_SIZE_LIMIT tiles (solver/mod.rs:
\* 128-145).  Returns the set of possible sets of groups.
evaluated_groups(m) ==
    LET map_size == get_size(m)
    IN IF map_size - m.tiles_flipped < GROUP_SIZE_LIMIT
       THEN {{{i \in 0..(map_size - 1) :
                    ~m.tiles[i].flipped /\ ~m.tiles[i].flagged}}}
       ELSE {{g \in groups : Cardinality(g) < GROUP_SIZE_LIMIT} :
                groups \in partition_from(m, 0,
                              [visited |-> {}, group_visited |-> {}, groups |-> {}])}

RECURSIVE candidates_of(_, _)
\* candidates.extend(evaluate_group(map, &group)) for each group: the
\* possible sets of candidates.
candidates_of(m, groups) ==
    IF groups = {} THEN {{}}
    ELSE LET group == CHOOSE g \in groups : TRUE
         IN {c[1] \cup c[2] :
                c \in evaluate_group(m, group) \X candidates_of(m, groups \ {group})}

\* solver/mod.rs:110-189.
enumerate_groups(m) ==
    LET candidates == UNION {candidates_of(m, groups) : groups \in evaluated_groups(m)}
    IN IF Cardinality(candidates) = 1
       THEN select_moves(m, CHOOSE c \in candidates : TRUE)
       ELSE UNION { select_moves(m, c) : c \in candidates }

random_move(m) ==
    LET remaining == get_size(m) - m.tiles_flipped
        unflipped == SortedSeq({i \in DOMAIN m.tiles : ~m.tiles[i].flipped})
    IN IF remaining = 0
       THEN {[map |-> m, moves |-> << >>, panic |-> TRUE]}   \* remainder by zero
       ELSE UNION { IF random_index + 1 > Len(unflipped)
                    THEN {[map |-> m, moves |-> << >>, panic |-> TRUE]}
                    ELSE LET position == from_index(unflipped[random_index + 1], m.width)
                         IN {[map |-> r.map,
                              moves |-> <<Move(position, "Flip")>>,
                              panic |-> FALSE] : r \in flip(m, position)}
                    : random_index \in 0..(remaining - 1) }

RECURSIVE apply_moves_from(_, _, _)
apply_moves_from(m, plays, k) ==
    IF k > Len(plays) THEN {m}
    ELSE IF plays[k].move_type = "Flip"
         THEN UNION {apply_moves_from(r.map, plays, k + 1) : r \in flip(m, plays[k].position)}
         ELSE apply_moves_from(flag(m, plays[k].position), plays, k + 1)

\* The set of boards apply_moves can leave.
apply_moves(m, plays) == apply_moves_from(m, plays, 1)

----------------------------------------------------------------------------
\* The program as a state machine.
\*   map      the caller's board
\*   last     the last call made on map: its name, position, returned count
\*            and the board before it
\*   pc       "play" (the caller flags and flips), "solve" (inside the loop
\*            of solve), "done" (solve returned), "replayed" (the returned
\*            moves have been applied to map), "panic" (solve aborted)
\*   staging  the staging board of solve
\*   moves    the move sequence of solve
\*   phase    parity of the number of loop iterations of solve
\*   truncated  the move sequence outgrew MaxMoves and is no longer recorded

NoPoint == [x |-> 0, y |-> 0]

Boards ==
    LET shapes == {s \in (0..MaxTiles) \X (0..MaxTiles) : s[1] * s[2] <= MaxTiles}
    IN UNION { LET w == s[1]
                   h == s[2]
               IN    {generate_map_with_mines(w, h, mines).map :
                         mines \in {ms \in SUBSET Points(w, h) :
                                        Cardinality(ms) <= MaxMines}}
                \cup UNION {generate_map_with_difficulty(w, h, c[1], c[2]) :
                              c \in {d \in (SUBSET (0..(w * h - 1))) \X Points(w, h) :
                                        /\ Cardinality(d[1]) <= MaxMines
                                        /\ to_index(d[2], w) \notin d[1]}}
               : s \in shapes }

Init ==
    /\ map \in Boards
    /\ last = [op |-> "generate", pos |-> NoPoint, ret |-> 0, pre |-> map]
    /\ pc = "play"
    /\ staging = map
    /\ moves = << >>
    /\ phase = 0
    /\ truncated = FALSE

Playing == pc \in {"play", "replayed"}

Flag(p) ==
    /\ Playing
    /\ map' = flag(map, p)
    /\ last' = [op |-> "flag", pos |-> p, ret |-> 0, pre |-> map]
    /\ pc' = "play"
    /\ staging' = map'
    /\ moves' = << >>
    /\ phase' = 0
    /\ truncated' = FALSE

Flip(p) ==
    /\ Playing
    /\ \E r \in flip(map, p) :
         /\ map' = r.map
         /\ last' = [op |-> "flip", pos |-> p, ret |-> r.n, pre |-> map]
    /\ pc' = "play"
    /\ staging' = map'
    /\ moves' = << >>
    /\ phase' = 0
    /\ truncated' = FALSE

Solve ==
    /\ Playing
    /\ pc' = "solve"
    /\ staging' = map
    /\ moves' = << >>
    /\ phase' = 0
    /\ truncated' = FALSE
    /\ last' = [op |-> "solve", pos |-> NoPoint, ret |-> 0, pre |-> map]
    /\ UNCHANGED map

\* r is what the pass that ended the iteration returned.
SolveStep(r) ==
    IF r.panic
    THEN /\ pc' = "panic"
         /\ UNCHANGED <<staging, moves, truncated>>
    ELSE /\ pc' = "solve"
         /\ staging' = r.map
         /\ IF truncated \/ Len(moves) + Len(r.moves) > MaxMoves
            THEN moves' = << >> /\ truncated' = TRUE
            ELSE moves' = moves \o r.moves /\ truncated' = FALSE

SolveLoop_groups_first ==
    /\ pc = "solve"
    /\ staging.status = "InProgress"
    /\ \E g \in enumerate_groups(staging) :
         IF g.panic \/ Len(g.moves) # 0 THEN SolveStep(g)
         ELSE \E b \in basic_pass(g.map) :
                IF b.panic \/ Len(b.moves) # 0 THEN SolveStep(b)
                ELSE \E r \in random_move(b.map) : SolveStep(r)
    /\ phase' = 1 - phase
    /\ UNCHANGED <<map, last>>

\* One iteration of the loop of solve (solver/mod.rs:31-40).
SolveLoop ==
    /\ pc = "solve"
    /\ staging.status = "InProgress"
    /\ \E b \in basic_pass(staging) :
         IF b.panic \/ Len(b.moves) # 0 THEN SolveStep(b)
         ELSE \E g \in enumerate_groups(b.map) :
                IF g.panic \/ Len(g.moves) # 0 THEN SolveStep(g)
                ELSE \E r \in random_move(g.map) : SolveStep(r)
    /\ phase' = 1 - phase
    /\ UNCHANGED <<map, last>>

SolveReturn ==
    /\ pc = "solve"
    /\ staging.status # "InProgress"
    /\ pc' = "done"
    /\ UNCHANGED <<map, last, staging, moves, phase, truncated>>

ApplyMoves ==
    /\ pc = "done"
    /\ ~truncated
    /\ map' \in apply_moves(map, moves)
    /\ last' = [op |-> "apply_moves", pos |-> NoPoint, ret |-> 0, pre |-> map]
    /\ pc' = "replayed"
    /\ UNCHANGED <<staging, moves, phase, truncated>>

Next ==
    \/ \E p \in Points(map.width, map.height) : Flag(p)
    \/ \E p \in Points(map.width, map.height) : Flip(p)
    \/ Solve
    \/ SolveLoop
    \/ SolveReturn
    \/ ApplyMoves

Spec == Init /\ [][Next]_vars

\* The program started by generate_map_with_mines on any mine positions, those
\* beyond the last column or row included.  A construction that aborts leaves
\* no board (pc = "aborted", no call can follow); `last` keeps the arguments.
NoBoard == generate_map_with_mines(0, 0, {}).map

GenInit ==
    /\ \E s \in (0..MaxTiles) \X (0..MaxTiles) :
         /\ s[1] * s[2] <= MaxTiles
         /\ \E mines \in SUBSET Points(s[1] + 1, s[2] + 1) :
              /\ Cardinality(mines) <= MaxMines
              /\ LET g == generate_map_with_mines(s[1], s[2], mines)
                 IN /\ map = IF g.panic THEN NoBoard ELSE g.map
                    /\ pc = IF g.panic THEN "aborted" ELSE "play"
                    /\ last = [op |-> "generate", pos |-> NoPoint, ret |-> 0,
                               pre |-> map, width |-> s[1], height |-> s[2],
                               mines |-> mines]
    /\ staging = map
    /\ moves = << >>
    /\ phase = 0
    /\ truncated = FALSE

GenSpec == GenInit /\ [][Next]_vars

\* The run of tests::test_simple_solve (solver/mod.rs:449-483) and of the
\* example of solve_map (lib.rs:25-59): the 5x5 board with five mines, flip of
\* (0,4), flag of (3,1), solve, and the replay of the returned moves.
TestMines ==
    {[x |-> 3, y |-> 1], [x |-> 4, y |-> 2], [x |-> 1, y |-> 1],
     [x |-> 2, y |-> 2], [x |-> 4, y |-> 4]}

TestInit ==
    /\ map = generate_map_with_mines(5, 5, TestMines).map
    /\ last = [op |-> "generate", pos |-> NoPoint, ret |-> 0, pre |-> map]
    /\ pc = "play"
    /\ staging = map
    /\ moves = << >>
    /\ phase = 0
    /\ truncated = FALSE

TestFlip == last.op = "generate" /\ Flip([x |-> 0, y |-> 4])

TestFlag == last.op = "flip" /\ Flag([x |-> 3, y |-> 1])

TestSolve == last.op = "flag" /\ Solve

TestNext ==
    \/ TestFlip
    \/ TestFlag
    \/ TestSolve
    \/ SolveLoop
    \/ SolveReturn
    \/ ApplyMoves

TestSpec == TestInit /\ [][TestNext]_vars

\* solve on one-row boards of GROUP_SIZE_LIMIT tiles or more, where the group
\* pass partitions the unflipped tiles (solver/mod.rs:128-145).
LineBoards ==
    UNION { {generate_map_with_mines(n, 1, mines).map :
                mines \in {ms \in SUBSET Points(n, 1) : Cardinality(ms) <= LineMines}}
            : n \in GROUP_SIZE_LIMIT..LineTiles }

LineInit ==
    /\ map \in LineBoards
    /\ last = [op |-> "generate", pos |-> NoPoint, ret |-> 0, pre |-> map]
    /\ pc = "play"
    /\ staging = map
    /\ moves = << >>
    /\ phase = 0
    /\ truncated = FALSE

\* The groups of the group pass on m have at most MaxGroup tiles each.
GroupsBounded(m) ==
    \A groups \in evaluated_groups(m) : \A g \in groups : Cardinality(g) <= MaxGroup

\* The loop of solve is followed while its groups are within MaxGroup.
LineSolveLoop == GroupsBounded(staging) /\ SolveLoop

LineNext ==
    \/ Solve
    \/ LineSolveLoop
    \/ SolveReturn
    \/ ApplyMoves

LineSpec == LineInit /\ [][LineNext]_vars

\* The one-row boards of GROUP_SIZE_LIMIT tiles after the caller has set a flag.
FlaggedLineBoards ==
    UNION {{flag(m, p) : p \in Points(m.width, m.height)} :
              m \in {b \in LineBoards : b.width = GROUP_SIZE_LIMIT}}
        \ LineBoards

FlaggedLineInit ==
    /\ map \in FlaggedLineBoards
    /\ last = [op |-> "generate", pos |-> NoPoint, ret |-> 0, pre |-> map]
    /\ pc = "play"
    /\ staging = map
    /\ moves = << >>
    /\ phase = 0
    /\ truncated = FALSE

FlaggedLineSpec == FlaggedLineInit /\ [][LineNext]_vars

\* Fresh one-row boards of WideTiles tiles with WideMines mines.
WideBoards ==
    {generate_map_with_mines(WideTiles, 1, mines).map :
        mines \in {ms \in SUBSET Points(WideTiles, 1) : Cardinality(ms) = WideMines}}

WideInit ==
    /\ map \in WideBoards
    /\ last = [op |-> "generate", pos |-> NoPoint, ret |-> 0, pre |-> map]
    /\ pc = "play"
    /\ staging = map
    /\ moves = << >>
    /\ phase = 0
    /\ truncated = FALSE

\* The loop of solve is followed up to its first flip.
WideSolveLoop == staging.tiles_flipped = 0 /\ SolveLoop

WideNext ==
    \/ Solve
    \/ WideSolveLoop
    \/ SolveReturn
    \/ ApplyMoves

WideSpec == WideInit /\ [][WideNext]_vars

\* One-row boards of ChainTiles tiles with a mine on every fourth tile (2, 6,
\* 10, ...), on which the odd tiles (each of value 1) have been flipped one by
\* one, all of them or all but ChainGaps, and then at most one even tile has
\* been flagged: the unflipped tiles form long chains, each tile linked to
\* the next by the flipped tile between them.
ChainBoards ==
    LET mines == {q \in Points(ChainTiles, 1) : q.x % 4 = 2}
        odd == {i \in 0..(ChainTiles - 1) : i % 2 = 1}
        fresh == generate_map_with_mines(ChainTiles, 1, mines).map
        even == {i \in 0..(ChainTiles - 1) : i % 2 = 0}
        flipped == UNION { flips_in_order(fresh, SortedSeq(odd \ gaps), 1) :
                             gaps \in {g \in SUBSET odd : Cardinality(g) <= ChainGaps} }
    IN flipped \cup {flag(m, from_index(i, m.width)) : m \in flipped, i \in even}

ChainInit ==
    /\ map \in ChainBoards
    /\ last = [op |-> "generate", pos |-> NoPoint, ret |-> 0, pre |-> map]
    /\ pc = "play"
    /\ staging = map
    /\ moves = << >>
    /\ phase = 0
    /\ truncated = FALSE

ChainSpec == ChainInit /\ [][LineNext]_vars

\* The loop of solve is not interrupted: an iteration that can run does run.
\* The steps SolveLoop takes, told by the parity of the loop alone: solve's
\* `loop` starts its next iteration whenever the staging board is in progress.
SolveTick ==
    /\ pc = "solve"
    /\ staging.status = "InProgress"
    /\ phase' = 1 - phase

\* solve runs to its return: the loop keeps iterating and the return is taken.
FairSpec == Spec /\ WF_phase(SolveTick) /\ WF_vars(SolveReturn)

----------------------------------------------------------------------------
\* Properties

Idx(p) == to_index(p, map.width)

Flipped(m) == {i \in DOMAIN m.tiles : m.tiles[i].flipped}

MinesOf(m) == {i \in DOMAIN m.tiles : m.tiles[i].mine}

AllSafeCounted(m) == m.tiles_flipped + m.total_mines = m.width * m.height

\* The last call on map was flip, on an InProgress board.
FlippedInProgress == last.op = "flip" /\ last.pre.status = "InProgress"

\* C1: once status is Failed or Complete no flag or flip call changes it.
C1_StatusMonotone ==
    [][map.status # "InProgress" => map'.status = map.status]_vars

\* flip was called on a mine of a Complete board.
C1_Witness ==
    /\ last.op = "flip"
    /\ last.pre.status = "Complete"
    /\ last.pre.tiles[Idx(last.pos)].mine
    /\ ~last.pre.tiles[Idx(last.pos)].flagged

C3_CompleteMeansCleared ==
    map.status = "Complete" =>
        \A i \in DOMAIN map.tiles : map.tiles[i].flipped = ~map.tiles[i].mine

\* a board with a mine and a flag on it became Complete.
C3_Witness ==
    /\ map.status = "Complete"
    /\ map.total_mines > 0
    /\ map.mines_remaining < map.total_mines
    /\ last.op \in {"flip", "apply_moves"}

\* C4: status is Failed if and only if some mine tile is flipped.
C4_FailedIffMineFlipped ==
    /\ (map.status = "Failed") <=> (Flipped(map) \cap MinesOf(map) # {})
    /\ (staging.status = "Failed") <=> (Flipped(staging) \cap MinesOf(staging) # {})

\* a convenience re-flip revealed a mine.
C4_Witness ==
    /\ FlippedInProgress
    /\ last.pre.tiles[Idx(last.pos)].flipped
    /\ map.status = "Failed"

\* C5 as claimed: the moves returned by solve, applied to the input board,
\* leave exactly the final staging board.
C5_ReplayReachesStaging ==
    pc = "replayed" => map = staging

\* C6 as claimed: the loop of solve, started on a board that has tiles,
\* reaches a staging status other than InProgress.
C6_SolveTerminates ==
    (pc = "solve" /\ NumTiles(staging) > 0) ~> (staging.status # "InProgress")

\* C7 as claimed: solve never aborts.
C7_SolveNeverAborts ==
    pc # "panic"

RECURSIVE Grow(_, _, _)
\* The least set that contains `set` and, with every tile of it that
\* satisfies `through`, the neighbours of that tile that satisfy `into`.
Grow(m, set, g) ==
    LET more == {i \in DOMAIN m.tiles :
                    /\ i \notin set
                    /\ g.into[i]
                    /\ \E k \in set : g.through[k] /\ i \in NeighbourIdx(m, k)}
    IN IF more = {} THEN set ELSE Grow(m, set \cup more, g)

\* The connected region of zero-value tiles around tile i and the nonzero
\* tiles that border it.
ZeroRegionAndBorder(m, i) ==
    Grow(m, {i}, [through |-> [k \in DOMAIN m.tiles |-> m.tiles[k].value = 0 /\ ~m.tiles[k].mine],
                  into |-> [k \in DOMAIN m.tiles |-> TRUE]])

\* The tiles the flood-fill rule reaches from tile i: transitively, the
\* unflipped and unflagged neighbours of the zero-value tiles reached.
FloodFill(m, i) ==
    Grow(m, {i}, [through |-> [k \in DOMAIN m.tiles |-> m.tiles[k].value = 0 /\ ~m.tiles[k].mine],
                  into |-> [k \in DOMAIN m.tiles |->
                                ~m.tiles[k].flipped /\ ~m.tiles[k].flagged]])

\* The last call flipped an unflipped, unflagged, zero-value tile that is
\* not a mine, on an InProgress board.
FlippedZero ==
    /\ FlippedInProgress
    /\ LET t == last.pre.tiles[Idx(last.pos)]
       IN ~t.flipped /\ ~t.flagged /\ t.value = 0 /\ ~t.mine

\* C8 as claimed: such a flip leaves flipped exactly the tiles flipped before,
\* the zero-value region of the tile and its border, and flips no mine.
C8_FlipsRegionAndBorder ==
    FlippedZero =>
        /\ Flipped(map) = Flipped(last.pre) \cup ZeroRegionAndBorder(last.pre, Idx(last.pos))
        /\ Flipped(map) \cap MinesOf(map) = {}

\* C8 amended: such a flip flips exactly the tiles the flood-fill rule
\* reaches through unflipped, unflagged tiles; they lie in the region and its
\* border, and none is a mine.
C8_FlipsFloodFill ==
    FlippedZero =>
        /\ Flipped(map) \ Flipped(last.pre) = FloodFill(last.pre, Idx(last.pos))
        /\ Flipped(map) \subseteq
                Flipped(last.pre) \cup ZeroRegionAndBorder(last.pre, Idx(last.pos))
        /\ Flipped(map) \cap MinesOf(map) = {}

\* a flood fill of several tiles stopped at a flagged tile of the region or
\* its border.
C8_Witness ==
    /\ FlippedZero
    /\ Cardinality(Flipped(map) \ Flipped(last.pre)) >= 2
    /\ \E i \in ZeroRegionAndBorder(last.pre, Idx(last.pos)) : map.tiles[i].flagged

\* The last call was flip on an already flipped tile of an InProgress board.
Reflipped == FlippedInProgress /\ last.pre.tiles[Idx(last.pos)].flipped

NoOpenNeighbour(m, i) ==
    \A k \in NeighbourIdx(m, i) : m.tiles[k].flipped \/ m.tiles[k].flagged

C10_FlipReturnsCount ==
    last.op = "flip" => last.ret = map.tiles_flipped - last.pre.tiles_flipped

Flagged(m) == {i \in DOMAIN m.tiles : m.tiles[i].flagged}

FlagBudget(m) ==
    /\ m.mines_remaining = m.total_mines - Cardinality(Flagged(m))
    /\ m.mines_remaining >= 0
    /\ m.mines_remaining <= m.total_mines

\* C11: mines_remaining is total_mines minus the number of flagged tiles, on
\* the caller's board and on the staging board of solve, and lies in
\* 0..total_mines; flip leaves it alone and flag changes it by -1 when it sets
\* a flag, by +1 when it clears one, and not at all when it does neither.
C11_FlagBudget ==
    /\ FlagBudget(map)
    /\ FlagBudget(staging)
    /\ last.op = "generate" => map.mines_remaining = map.total_mines
    /\ last.op = "flip" => map.mines_remaining = last.pre.mines_remaining
    /\ last.op = "flag" =>
          LET was == last.pre.tiles[Idx(last.pos)].flagged
              is == map.tiles[Idx(last.pos)].flagged
          IN map.mines_remaining - last.pre.mines_remaining =
                IF was /\ ~is THEN 1 ELSE IF ~was /\ is THEN 0 - 1 ELSE 0

\* a flag was cleared while another tile stays flagged.
C11_Witness ==
    /\ last.op = "flag"
    /\ last.pre.tiles[Idx(last.pos)].flagged
    /\ ~map.tiles[Idx(last.pos)].flagged
    /\ map.mines_remaining = last.pre.mines_remaining + 1
    /\ Flagged(map) # {}

\* flag was called in one of its guarded cases.
FlagGuarded ==
    /\ last.op = "flag"
    /\ \/ last.pre.status # "InProgress"
       \/ last.pre.tiles[Idx(last.pos)].flipped
       \/ ~last.pre.tiles[Idx(last.pos)].flagged /\ last.pre.mines_remaining = 0

\* C12: flag leaves the board as it was when the status is not InProgress,
\* the tile is flipped, or the tile is unflagged and mines_remaining is 0.
C12_FlagGuardsNoOp ==
    FlagGuarded => map = last.pre

\* flag was refused for want of budget on an unflipped tile of an InProgress
\* board that has mines.
C12_Witness ==
    /\ last.op = "flag"
    /\ last.pre.status = "InProgress"
    /\ ~last.pre.tiles[Idx(last.pos)].flipped
    /\ ~last.pre.tiles[Idx(last.pos)].flagged
    /\ last.pre.mines_remaining = 0
    /\ last.pre.total_mines > 0

\* C13 as claimed: flip on a flagged tile changes nothing on the board.
C13_FlipFlaggedNoOp ==
    (last.op = "flip" /\ last.pre.tiles[Idx(last.pos)].flagged) => map = last.pre

\* C14: a flip on a freshly generated board without mines makes it Complete.
C14_NoMinesFlipCompletes ==
    (last.op = "flip" /\ last.pre \in Boards /\ last.pre.total_mines = 0)
        => map.status = "Complete"

\* the flip flood-filled a fresh board of four or more tiles.
C14_Witness ==
    /\ last.op = "flip"
    /\ last.pre \in Boards
    /\ last.pre.total_mines = 0
    /\ last.pre.tiles_flipped = 0
    /\ NumTiles(map) >= 4
    /\ map.tiles_flipped = NumTiles(map)
    /\ map.status = "Complete"

\* C18 as claimed: no board that has tiles, returned by a generator or left by
\* flag or flip, is InProgress while tiles_flipped + total_mines =
\* width * height.
C18_CompletionChecked ==
    (/\ last.op \in {"generate", "flag", "flip"}
     /\ NumTiles(map) > 0
     /\ map.status = "InProgress")
        => ~AllSafeCounted(map)

TilesKept(m, n) ==
    \A i \in DOMAIN m.tiles :
        /\ n.tiles[i].value = m.tiles[i].value
        /\ n.tiles[i].mine = m.tiles[i].mine
        /\ m.tiles[i].flipped => n.tiles[i].flipped /\ ~n.tiles[i].flagged

NoneFlaggedAndFlipped(m) ==
    \A i \in DOMAIN m.tiles : ~(m.tiles[i].flagged /\ m.tiles[i].flipped)

\* C19: no tile is both flagged and flipped; a call on the caller's board, and
\* an iteration of solve on its staging board, keeps every flipped tile
\* flipped and unflagged and changes no tile's value or mine field.
C19_TilesKept ==
    /\ [](NoneFlaggedAndFlipped(map) /\ NoneFlaggedAndFlipped(staging))
    /\ [][TilesKept(map, map')]_vars
    /\ [][(pc = "solve" /\ pc' = "solve") => TilesKept(staging, staging')]_vars

\* flag was called, with budget left, on a flipped tile of an InProgress board
\* that carries a flag on another tile.
C19_Witness ==
    /\ last.op = "flag"
    /\ last.pre.status = "InProgress"
    /\ last.pre.tiles[Idx(last.pos)].flipped
    /\ last.pre.mines_remaining > 0
    /\ Flagged(last.pre) # {}

\* The tiles enumerate_groups hands to evaluate_group: unflipped and unflagged.
Unresolved(m) == {i \in DOMAIN m.tiles : ~m.tiles[i].flipped /\ ~m.tiles[i].flagged}

\* The flipped tiles evaluate_group collects around the group G.
FlippedAround(m, G) == {k \in UNION {NeighbourIdx(m, t) : t \in G} : m.tiles[k].flipped}

\* G is a group of two tiles that both border the flipped tile f of value 1,
\* the only flipped tile around G, while a mine is left to place on a board
\* in progress (solve runs its passes on no other board).
TwoOnOne(m, G, f) ==
    /\ m.status = "InProgress"
    /\ G \subseteq Unresolved(m)
    /\ Cardinality(G) = 2
    /\ FlippedAround(m, G) = {f}
    /\ G \subseteq NeighbourIdx(m, f)
    /\ m.tiles[f].value = 1
    /\ m.mines_remaining >= 1

\* C16 as claimed: on such a group evaluate_group nominates both tiles, each
\* with risk 128.
C16_BothAt128 ==
    \A G \in SUBSET DOMAIN map.tiles : \A f \in DOMAIN map.tiles :
        TwoOnOne(map, G, f) =>
            evaluate_group(map, G) = {{<<t, 128>> : t \in G}}

\* C16 amended: when the flipped tile has no flagged neighbour, evaluate_group
\* nominates exactly one tile of the group, either of the two, with risk 127,
\* and no other nomination; when it has a flagged neighbour, both tiles are
\* nominated as certain flips (risk 0).
C16_OneAt127 ==
    \A G \in SUBSET DOMAIN map.tiles : \A f \in DOMAIN map.tiles :
        TwoOnOne(map, G, f) =>
            IF \E k \in NeighbourIdx(map, f) : map.tiles[k].flagged
            THEN evaluate_group(map, G) = {{<<t, 0>> : t \in G}}
            ELSE evaluate_group(map, G) = {{<<t, 127>>} : t \in G}

\* solve ran its group pass on such a group, the whole of the unresolved
\* tiles, after a basic pass without moves, and flipped the nominated tile.
C16_Witness ==
    /\ pc = "solve"
    /\ \E f \in DOMAIN map.tiles :
          /\ TwoOnOne(map, Unresolved(map), f)
          /\ \A k \in NeighbourIdx(map, f) : ~map.tiles[k].flagged
    /\ \A b \in basic_pass(map) : ~b.panic /\ Len(b.moves) = 0
    /\ Len(moves) = 1
    /\ moves[1].move_type = "Flip"
    /\ to_index(moves[1].position, map.width) \in Unresolved(map)

\* C17 as claimed: generate_map_with_mines aborts whenever a given mine lies
\* outside the board (x >= width or y >= height).
C17_OutsideMineAborts ==
    (/\ last.op = "generate"
     /\ \E mine \in last.mines : mine.x >= last.width \/ mine.y >= last.height)
        => pc = "aborted"

\* C15: in the run of the test the board is InProgress when solve is called,
\* solve does not abort, every sequence it returns has exactly 14 moves, and
\* the replay of the sequence leaves the board Complete.
C15_FourteenMoves ==
    /\ pc # "panic"
    /\ last.op = "flag" => map.status = "InProgress"
    /\ pc \in {"done", "replayed"} => ~truncated /\ Len(moves) = 14
    /\ pc = "replayed" => map.status = "Complete"

\* the 14 moves solve returned for the test board were replayed on it.
C15_Witness ==
    /\ pc = "replayed"
    /\ map.width = 5 /\ map.height = 5
    /\ last.pre.tiles_flipped = 10
    /\ Len(moves) = 14
    /\ map.tiles_flipped = 20
    /\ map.status = "Complete"

\* The iteration just taken left what the pass result r says: its board, and
\* its moves, one at least, at the end of the sequence.
Appended(r) ==
    /\ ~r.panic
    /\ Len(r.moves) >= 1
    /\ staging' = r.map
    /\ truncated' \/ moves' = moves \o r.moves

\* C20: an iteration of the loop of solve that completes appends the moves of
\* the basic pass if that pass recorded any; otherwise the moves of the
\* group pass, run on the board the basic pass left, if it recorded any;
\* otherwise the one move of the random fallback; the sequence grows by at
\* least one move.
C20_PassOrder ==
    [][(pc = "solve" /\ pc' = "solve") =>
        /\ truncated' \/ Len(moves') >= Len(moves) + 1
        /\ \/ \E b \in basic_pass(staging) : Appended(b)
           \/ \E b \in basic_pass(staging) :
                 /\ ~b.panic /\ Len(b.moves) = 0
                 /\ \E g \in enumerate_groups(b.map) : Appended(g)
           \/ \E b \in basic_pass(staging) :
                 /\ ~b.panic /\ Len(b.moves) = 0
                 /\ \E g \in enumerate_groups(b.map) :
                       /\ ~g.panic /\ Len(g.moves) = 0
                       /\ \E r \in random_move(g.map) :
                             Appended(r) /\ Len(r.moves) = 1]_vars

\* the first iteration of solve on a fresh board of GROUP_SIZE_LIMIT tiles or
\* more: neither pass recorded a move and the random fallback flipped a tile.
C20_Witness ==
    /\ pc = "solve"
    /\ get_size(map) >= GROUP_SIZE_LIMIT
    /\ map.tiles_flipped = 0
    /\ \A b \in basic_pass(map) : ~b.panic /\ Len(b.moves) = 0
    /\ \A g \in enumerate_groups(map) : ~g.panic /\ Len(g.moves) = 0
    /\ Len(moves) = 1
    /\ moves[1].move_type = "Flip"
    /\ staging.tiles[to_index(moves[1].position, map.width)].flipped

\* ---- the rule of the basic pass ----

\* The neighbours of tile `index` that are neither flipped nor flagged.
FreeNeighbours(m, index) ==
    {j \in NeighbourIdx(m, index) : ~m.tiles[j].flipped /\ ~m.tiles[j].flagged}

\* What the rule of the basic pass promises of the outcome r of visiting
\* the flipped tile `index` of board m.
NeighbourRule(m, index, r) ==
    LET position == from_index(index, m.width)
        flagged == Cardinality({j \in NeighbourIdx(m, index) : m.tiles[j].flagged})
        unflipped == Cardinality({j \in NeighbourIdx(m, index) : ~m.tiles[j].flipped})
        free == FreeNeighbours(m, index)
    IN IF flagged = m.tiles[index].value /\ free # {}
       THEN /\ ~r.panic
            /\ r.moves = <<Move(position, "Flip")>>
            /\ r.map \in {x.map : x \in flip(m, position)}
       ELSE IF unflipped = m.tiles[index].value
       THEN /\ ~r.panic
            /\ Len(r.moves) = Cardinality(free)
            /\ \A j \in free :
                 /\ r.map.tiles[j].flagged
                 /\ \E k \in 1..Len(r.moves) :
                      r.moves[k] = Move(from_index(j, m.width), "Flag")
       ELSE ~r.panic /\ r.moves = << >> /\ r.map = m

\* C21: at the start of every iteration of solve, visiting the first flipped
\* tile of positive value in the basic pass records one Flip at the tile's own position when
\* its flagged neighbours equal its value and a free neighbour remains; else,
\* when its unflipped neighbours equal its value, flags every free neighbour
\* and records one Flag move for each; else records nothing.
C21_NeighbourRule ==
    (pc = "solve" /\ staging.status = "InProgress")
        => LET visited == {i \in DOMAIN staging.tiles :
                              staging.tiles[i].flipped /\ staging.tiles[i].value > 0}
           IN \A i \in visited :
                (\A j \in visited : i <= j)
                    => \A r \in evaluate_neighbours(staging, i) :
                          NeighbourRule(staging, i, r)

\* ---- the groups of the group pass ----

\* The components the partition of solver/mod.rs:128-145 can find on m.
Partitions(m) ==
    partition_from(m, 0, [visited |-> {}, group_visited |-> {}, groups |-> {}])

UnflippedTiles(m) == {i \in DOMAIN m.tiles : ~m.tiles[i].flipped}

FreeTiles(m) == {i \in DOMAIN m.tiles : ~m.tiles[i].flipped /\ ~m.tiles[i].flagged}

\* C22: on every board solve works on, every group handed to evaluate_group
\* has fewer than GROUP_SIZE_LIMIT tiles; with fewer than GROUP_SIZE_LIMIT
\* tiles unflipped the one group is the set of all unflipped, unflagged tiles;
\* otherwise the groups are the components of the partition that have fewer
\* than GROUP_SIZE_LIMIT tiles, and no tile of a larger component is nominated.
C22_GroupsBelowLimit ==
    (pc = "solve" /\ staging.status = "InProgress")
        => \A groups \in evaluated_groups(staging) :
             /\ \A g \in groups : Cardinality(g) < GROUP_SIZE_LIMIT
             /\ IF Cardinality(UnflippedTiles(staging)) < GROUP_SIZE_LIMIT
                THEN groups = {FreeTiles(staging)}
                ELSE \E parts \in Partitions(staging) :
                       /\ groups = {g \in parts : Cardinality(g) < GROUP_SIZE_LIMIT}
                       /\ GroupsBounded(staging)
                            => \A c \in candidates_of(staging, groups) :
                                 \A n \in c : \A g \in parts :
                                    Cardinality(g) >= GROUP_SIZE_LIMIT => n[1] \notin g

\* A component of GROUP_SIZE_LIMIT tiles or more was left out of the group
\* pass, which so recorded nothing, and the random fallback made the move.
C22_Witness ==
    /\ pc = "solve"
    /\ Len(moves) = 1
    /\ \E parts \in Partitions(last.pre) :
         \E g \in parts : Cardinality(g) >= GROUP_SIZE_LIMIT
    /\ evaluated_groups(last.pre) = {{}}

\* The frontier of m: the unflipped, unflagged tiles next to a flipped tile.
Frontier(m) ==
    {i \in FreeTiles(m) : \E j \in NeighbourIdx(m, i) : m.tiles[j].flipped}

\* C23: on every board with GROUP_SIZE_LIMIT or more tiles left, the groups
\* the partition finds are non-empty sets of frontier tiles, pairwise
\* disjoint, covering the frontier, and the unflipped, unflagged neighbours
\* of any flipped tile all lie in one group.
C23_PartitionOfFrontier ==
    (get_size(staging) - staging.tiles_flipped >= GROUP_SIZE_LIMIT)
        => \A parts \in Partitions(staging) :
             /\ \A g \in parts : g # {} /\ g \subseteq Frontier(staging)
             /\ \A g, h \in parts : g # h => g \cap h = {}
             /\ UNION parts = Frontier(staging)
             /\ \A f \in DOMAIN staging.tiles :
                  staging.tiles[f].flipped
                    => \A g \in parts :
                         FreeNeighbours(staging, f) \cap g # {}
                            => FreeNeighbours(staging, f) \subseteq g

\* solve is at work on a board whose frontier falls into three groups or more.
C23_Witness ==
    /\ pc = "solve"
    /\ get_size(staging) - staging.tiles_flipped >= GROUP_SIZE_LIMIT
    /\ \E parts \in Partitions(staging) : Cardinality(parts) >= 3

\* ---- the count of evaluate_group ----

\* The sets of tiles of group G that, flagged on top of the flags of m, leave
\* every flipped neighbour of the group with as many flagged neighbours as
\* its value, and that hold min(mines_remaining, n) tiles at most.
ValidSubsets(m, G) ==
    {S \in SUBSET G :
        /\ Cardinality(S) <= Min(m.mines_remaining, Cardinality(G))
        /\ \A f \in DOMAIN m.tiles :
             (m.tiles[f].flipped /\ NeighbourIdx(m, f) \cap G # {})
                => Cardinality({j \in NeighbourIdx(m, f) : m.tiles[j].flagged \/ j \in S})
                     = m.tiles[f].value}

\* The groups of the group pass on m, when they are within MaxGroup.
BoundedGroups(m) ==
    IF GroupsBounded(m) THEN UNION evaluated_groups(m) ELSE {}

\* C24: for every group solve hands to evaluate_group, valid_permutations is
\* the number of valid subsets of the group and the tally of each member is
\* the number of valid subsets that contain it.
C24_CountsValidSubsets ==
    (pc = "solve" /\ staging.status = "InProgress")
        => \A G \in BoundedGroups(staging) :
             LET counted == count_permutations(staging, G)
             IN /\ counted.valid_permutations = Cardinality(ValidSubsets(staging, G))
                /\ \A t \in G :
                     counted.tallies[t]
                        = Cardinality({S \in ValidSubsets(staging, G) : t \in S})

\* solve is at work on a board with a flag set, whose group of three tiles or
\* more has several valid subsets and subsets the flag budget rules out.
C24_Witness ==
    /\ pc = "solve"
    /\ staging.status = "InProgress"
    /\ \E i \in DOMAIN staging.tiles : staging.tiles[i].flagged
    /\ \E G \in BoundedGroups(staging) :
         /\ Cardinality(G) >= 3
         /\ staging.mines_remaining < Cardinality(G)
         /\ Cardinality(ValidSubsets(staging, G)) >= 2

\* C25: for every group solve hands to evaluate_group, every member of tally
\* 0 is nominated with risk 0, every member whose tally is not 0 and equals
\* valid_permutations is nominated with risk 256, and nothing else is
\* nominated with risk 256.
C25_CertainNominations ==
    (pc = "solve" /\ staging.status = "InProgress")
        => \A G \in BoundedGroups(staging) :
             LET counted == count_permutations(staging, G)
                 always == {t \in G : /\ counted.tallies[t] # 0
                                      /\ counted.tallies[t] = counted.valid_permutations}
             IN \A nominations \in evaluate_group(staging, G) :
                  /\ \A t \in G : counted.tallies[t] = 0 => <<t, 0>> \in nominations
                  /\ \A t \in always : <<t, 256>> \in nominations
                  /\ \A n \in nominations : n[2] = 256 => n[1] \in always

\* solve is at work on a board with a group that has a tile in no valid
\* subset and a tile in every valid subset.
C25_Witness ==
    /\ pc = "solve"
    /\ staging.status = "InProgress"
    /\ \E G \in BoundedGroups(staging) :
         \E nominations \in evaluate_group(staging, G) :
            \E t, u \in G : <<t, 0>> \in nominations /\ <<u, 256>> \in nominations

\* C26: for every group solve hands to evaluate_group, a nomination of a tile
\* whose tally lies strictly between 0 and valid_permutations carries the
\* risk floor(tally * 255 / valid_permutations).
C26_RiskIsScaledTally ==
    (pc = "solve" /\ staging.status = "InProgress")
        => \A G \in BoundedGroups(staging) :
             LET counted == count_permutations(staging, G)
             IN \A nominations \in evaluate_group(staging, G) :
                  \A n \in nominations :
                     (/\ n[1] \in G
                      /\ counted.tallies[n[1]] > 0
                      /\ counted.tallies[n[1]] < counted.valid_permutations)
                        => n[2] = (counted.tallies[n[1]] * 255)
                                     \div counted.valid_permutations

\* ---- the moves of the group pass ----

\* The number of places of the sequence seq that hold x.
Occurrences(seq, x) == Cardinality({k \in 1..Len(seq) : seq[k] = x})

\* What is promised of the outcome r of the candidate loop on board m with
\* the nominations `candidates`.
CertainFirst(m, candidates, r) ==
    LET zero == {c \in candidates : c[2] = 0}
        mines == {c \in candidates : c[2] = 256}
        others == candidates \ (zero \cup mines)
    IN /\ ~r.panic
       /\ r.map \in apply_moves(m, r.moves)
       /\ IF zero \cup mines # {}
          THEN /\ Len(r.moves) = Cardinality(zero) + Cardinality(mines)
               /\ \A c \in zero :
                    Occurrences(r.moves, Move(from_index(c[1], m.width), "Flip")) = 1
               /\ \A c \in mines :
                    Occurrences(r.moves, Move(from_index(c[1], m.width), "Flag")) = 1
          ELSE IF others # {}
          THEN \E c \in others :
                 /\ \A d \in others : c[2] <= d[2]
                 /\ r.moves = <<Move(from_index(c[1], m.width), "Flip")>>
          ELSE r.moves = << >>

C28_GroupPassDeterministic ==
    (pc = "solve" /\ staging.status = "InProgress" /\ GroupsBounded(staging))
        => \A r1, r2 \in enumerate_groups(staging) : r1.moves = r2.moves

\* ---- the random fallback ----

\* C29: on every board in progress that solve works on, when the basic pass
\* and the group pass record nothing, the move of random_move names a tile
\* that was unflipped and is flipped after it, and tiles_flipped has grown.
C29_FallbackProgress ==
    (pc = "solve" /\ staging.status = "InProgress" /\ GroupsBounded(staging))
        => \A b \in basic_pass(staging) :
             (~b.panic /\ Len(b.moves) = 0)
                => \A g \in enumerate_groups(b.map) :
                     (~g.panic /\ Len(g.moves) = 0)
                        => \A r \in random_move(g.map) :
                             /\ ~r.panic
                             /\ Len(r.moves) = 1
                             /\ LET i == to_index(r.moves[1].position, g.map.width)
                                IN /\ ~g.map.tiles[i].flipped
                                   /\ r.map.tiles[i].flipped
                             /\ r.map.tiles_flipped > g.map.tiles_flipped

\* C30: after a call of flag, on any board and at any position, a second call
\* of flag at the same position leaves the board as it was before the first
\* call, and so do two calls made on the present board at any position.
C30_FlagInvolution ==
    /\ last.op = "flag" => flag(map, last.pos) = last.pre
    /\ \A p \in Points(map.width, map.height) : flag(flag(map, p), p) = map

\* A call of flag has set a flag and used up the flag budget.
C30_Witness ==
    /\ last.op = "flag"
    /\ map.tiles[Idx(last.pos)].flagged
    /\ ~last.pre.tiles[Idx(last.pos)].flagged
    /\ map.mines_remaining = 0

\* ---- the counter of flipped tiles ----

\* The tiles of m whose flipped field is set.
FlippedTiles(m) == {i \in DOMAIN m.tiles : m.tiles[i].flipped}

\* C31: on the caller's board and on the staging board of solve, in every
\* reachable state, tiles_flipped is the number of tiles that are flipped.
C31_CounterIsFlippedCount ==
    /\ map.tiles_flipped = Cardinality(FlippedTiles(map))
    /\ staging.tiles_flipped = Cardinality(FlippedTiles(staging))

\* A flip called on a tile already flipped has flipped two tiles or more, one
\* of them of value 0.
C31_Witness ==
    /\ last.op = "flip"
    /\ last.pre.tiles[Idx(last.pos)].flipped
    /\ Cardinality(FlippedTiles(map) \ FlippedTiles(last.pre)) >= 2
    /\ \E i \in FlippedTiles(map) \ FlippedTiles(last.pre) : map.tiles[i].value = 0

\* ---- soundness of the certain moves ----

\* Every flagged tile of m is a mine.
FlagsOnMines(m) == \A i \in DOMAIN m.tiles : m.tiles[i].flagged => m.tiles[i].mine

\* Every Flag move of the sequence names a mine of m.
FlagMovesOnMines(m, plays) ==
    \A k \in 1..Len(plays) :
        plays[k].move_type = "Flag" => m.tiles[to_index(plays[k].position, m.width)].mine

\* The outcome r of a pass on board m flagged mines only and, where the pass
\* made certain moves, did not lose the game.
SoundOutcome(m, r, certain) ==
    r.panic \/ (/\ FlagMovesOnMines(m, r.moves)
                /\ certain => (r.map.status # "Failed" /\ FlagsOnMines(r.map)))

\* C32: on a staging board in progress whose flags all lie on mines, every
\* Flag move of the basic pass and of the group pass names a mine, and the
\* flips of the basic pass and of the nominations of risk 0 do not lose the
\* game.
C32_CertainMovesSound ==
    (/\ pc = "solve" /\ staging.status = "InProgress"
     /\ FlagsOnMines(staging)
     /\ GroupsBounded(staging) \/ staging.tiles_flipped = 0)
        => \A b \in basic_pass(staging) :
             /\ SoundOutcome(staging, b, TRUE)
             /\ (~b.panic /\ Len(b.moves) = 0)
                  => \A groups \in evaluated_groups(b.map) :
                       \A candidates \in candidates_of(b.map, groups) :
                          \A r \in select_moves(b.map, candidates) :
                             SoundOutcome(b.map, r,
                                \E c \in candidates : c[2] = 0 \/ c[2] = 256)

\* C33: for every group the group pass of solve evaluates (the basic pass
\* having recorded nothing), a nomination of risk 0 names a tile of tally 0
\* of a group that has at least one valid permutation.
C33_ZeroRiskIsSafe ==
    (/\ pc = "solve" /\ staging.status = "InProgress"
     /\ GroupsBounded(staging) \/ staging.tiles_flipped = 0)
        => \A b \in basic_pass(staging) :
             (~b.panic /\ Len(b.moves) = 0)
                => \A G \in UNION evaluated_groups(b.map) :
                     LET counted == count_permutations(b.map, G)
                     IN \A nominations \in evaluate_group(b.map, G) :
                          \A n \in nominations :
                             n[2] = 0 => /\ counted.valid_permutations > 0
                                         /\ n[1] \in G
                                         /\ counted.tallies[n[1]] = 0


====
